---- MODULE Spec2Model ----
(***************************************************************************)
(* Wishlist (src/Wishlist.py): categories of wishes, the budget            *)
(* distribution engine (calculate_distribution) and the preview / commit   *)
(* / reset protocol (apply_distribution, reset_calculation), together with *)
(* the editing handlers that touch the same fields.                        *)
(*                                                                         *)
(* Money is an integer number of units.  A text typed into one of the      *)
(* three QLineEdit fields (budget, cost, amount) is modelled by the kind   *)
(* of text and, for a decimal number, by its value in half units, so that  *)
(* float(text) followed by int(round(.)) is a real conversion with ties.   *)
(* All three fields carry QDoubleValidator(0, 1000000, 2): the widget      *)
(* refuses a leading minus sign, so a numeric text is never negative; an   *)
(* empty text and a text float() cannot parse are both possible.           *)
(*                                                                         *)
(* The handlers are modelled as callable in any order (a superset of what  *)
(* the enabled buttons allow).                                             *)
(*                                                                         *)
(* wishlist_data.json is modelled by what json.load returns from it: a     *)
(* number is an int or a float (kept in half units), and a wish record of  *)
(* an old file may lack 'position'.                                        *)
(***************************************************************************)
EXTENDS Integers, Sequences, FiniteSets, TLC

\* ------------------------------------------------------------ bounds
\* The handlers together (Spec).  The stored documents the program starts
\* from hold two categories with a wish each; MaxCats and MaxWishes bound what
\* add_category and add_wish add on top of what is left of them.
MaxCats == 1          \* add_category is explored below this many categories
MaxWishes == 1        \* add_wish is explored below this many wishes in the model
MaxHalves == 3        \* largest number typed into a field, in half units
MaxMoney == 2         \* progress values above this are not explored
\* The distribution engine on its own (SpecEngine).
MaxModelWishes == 2        \* wishes in a model handed to the engine
MaxBudgetHalves == 6       \* largest budget typed, in half units
MaxEnginePercentTens == 1  \* largest category weight, in tens of percent
\* The first start with the test data (SpecScenario).
MaxScenarioBudgets == 2    \* largest budget typed, in steps of 5000
\* The wish list of one category (SpecList).
MaxListWishes == 4         \* add_wish is explored below this many wishes in it
\* The file (SpecStore).
MaxDocHalves == 3          \* largest float found in a file, in half units

\* ------------------------------------------------------------ program constants
NewWishCost == 1000
NewCategoryPercent == 10

\* ------------------------------------------------------------ helpers
Min(a, b) == IF a <= b THEN a ELSE b
Max(a, b) == IF a >= b THEN a ELSE b

\* Python 3 round() of the non-negative rational n / d: nearest integer,
\* a tie goes to the even neighbour.
PyRound(n, d) ==
    LET q == n \div d
        r == n % d
    IN  IF 2 * r < d THEN q
        ELSE IF 2 * r > d THEN q + 1
        ELSE IF q % 2 = 0 THEN q ELSE q + 1

\* The texts a validated field can hold.
Texts ==
    {[kind |-> "empty", halves |-> 0], [kind |-> "junk", halves |-> 0]}
    \cup {[kind |-> "num", halves |-> h] : h \in 0..MaxHalves}

\* The budgets typed when the engine is exercised on its own.
BudgetTexts ==
    {[kind |-> "empty", halves |-> 0], [kind |-> "junk", halves |-> 0]}
    \cup {[kind |-> "num", halves |-> h] : h \in 0..MaxBudgetHalves}

\* int(round(float(text))) of a numeric text.
IntRound(text) == PyRound(text.halves, 2)

\* WishItem(name, cost, progress): position 0 until add_wish sets it.
WishItem(cost, progress, position) ==
    [cost |-> cost, progress |-> progress, preview_progress |-> progress,
     position |-> position]

remaining(w) == Max(0, w.cost - w.progress)
preview_remaining(w) == Max(0, w.cost - w.preview_progress)

RECURSIVE SumOver(_, _)
\* sum of f[i] for i in 1..n
SumOver(f, n) == IF n = 0 THEN 0 ELSE f[n] + SumOver(f, n - 1)

total_remaining(c) ==
    SumOver([i \in 1..Len(c.wishes) |-> remaining(c.wishes[i])], Len(c.wishes))

\* indices (in list order) of the wishes with preview_progress < cost
uncompleted_preview_wishes(c) ==
    SelectSeq([i \in 1..Len(c.wishes) |-> i],
              LAMBDA i : c.wishes[i].preview_progress < c.wishes[i].cost)

RECURSIVE InsertByPosition(_, _, _)
\* insert index i into the position-sorted index sequence s, after every
\* index whose wish has a position <= that of wish i (sorted() is stable)
InsertByPosition(ws, s, i) ==
    IF s = << >> THEN <<i>>
    ELSE IF ws[Head(s)].position <= ws[i].position
         THEN <<Head(s)>> \o InsertByPosition(ws, Tail(s), i)
         ELSE <<i>> \o s

\* the wishes taken in the order of the list, whatever their positions
SortedByPosition_ListOrder(ws, idxs) == idxs

RECURSIVE SortedByPosition(_, _)
\* sorted(idxs, key=lambda w: w.position)
SortedByPosition(ws, idxs) ==
    IF idxs = << >> THEN << >>
    ELSE InsertByPosition(ws, SortedByPosition(ws, SubSeq(idxs, 1, Len(idxs) - 1)),
                          idxs[Len(idxs)])


\* ------------------------------------------------------------ state
VARIABLES
    categories,      \* WishlistApp.categories: sequence of categories, each
                     \* [percent, allocated, wishes]; a wish is
                     \* [cost, progress, preview_progress, position]
    current_budget,  \* WishlistApp.current_budget
    apply_enabled,   \* apply_button is enabled and reset_button is visible:
                     \* a preview is pending
    remaining_label, \* the remaining_budget the last successful calculation ended
                     \* with (remaining_label shows it when positive), 0 once
                     \* apply or reset has hidden the label
    data_file,       \* wishlist_data.json: [exists, parses, categories],
                     \* categories being the list of category records
                     \* json.load returns when the file parses
    disk,            \* what happens on open(data_file, 'w') and json.dump:
                     \* "ok", "readonly" (open raises, the file stays) or
                     \* "full" (the file is truncated and the dump raises)
    hist             \* [last, follows]: the handler that ran last (with the way
                     \* calculate_distribution returned), and whether the handler
                     \* before it was a successful calculate_distribution (for a
                     \* calculate_distribution: one with the same budget)

vars ==
    <<categories, current_budget, apply_enabled, remaining_label, data_file, disk, hist>>

\* hist after one more handler
Record(op) == [last |-> op, follows |-> hist.last = "calc_ok"]

\* hist after calculate_distribution got as far as reading the budget
RecordCalc(op, budget) ==
    [last |-> op, follows |-> hist.last = "calc_ok" /\ budget = current_budget]

\* ------------------------------------------------------------ persistence
\* a JSON number: an int n is [float |-> FALSE, halves |-> 2 * n], a float
\* is given in half units
JsonInt(n) == [float |-> FALSE, halves |-> 2 * n]
JsonFloat(h) == [float |-> TRUE, halves |-> h]

\* "if isinstance(cost, float): cost = int(round(cost))", and the
\* int(round(.)) of WishItem.__init__, which leaves an int as it is
FromJson(x) == IF x.float THEN PyRound(x.halves, 2) ELSE x.halves \div 2

\* WishItem.from_dict: data.get('position', 0); preview_progress starts equal
\* to progress
WishFromDict(d) ==
    WishItem(FromJson(d.cost), FromJson(d.progress),
             IF "position" \in DOMAIN d THEN d.position ELSE 0)

\* a from_dict that keeps the records in the order of the file
CategoryFromDict_Unsorted(d) ==
    [percent |-> d.percent, allocated |-> 0,
     wishes |-> [i \in 1..Len(d.wishes) |-> WishFromDict(d.wishes[i])]]

\* Category.from_dict: the wishes sorted by position
CategoryFromDict(d) ==
    LET ws == [i \in 1..Len(d.wishes) |-> WishFromDict(d.wishes[i])]
        order == SortedByPosition(ws, [i \in 1..Len(ws) |-> i])
    IN  [percent |-> d.percent, allocated |-> 0,
         wishes |-> [k \in 1..Len(order) |-> ws[order[k]]]]

\* WishItem.to_dict
WishToDict(w) ==
    [cost |-> JsonInt(w.cost), progress |-> JsonInt(w.progress),
     position |-> w.position]

\* Category.to_dict
CategoryToDict(c) ==
    [percent |-> c.percent,
     wishes |-> [i \in 1..Len(c.wishes) |-> WishToDict(c.wishes[i])]]

\* a file that parses as JSON and holds the category records doc
File(doc) == [exists |-> TRUE, parses |-> TRUE, categories |-> doc]

\* a file cut off in the middle of a json.dump: json.load raises on it
TruncatedFile == [exists |-> TRUE, parses |-> FALSE, categories |-> << >>]

\* save_data: the file after json.dump of the model
save_data(cats) == File([c \in 1..Len(cats) |-> CategoryToDict(cats[c])])

\* a handler that leaves the file as it is
Written_Skipped(cats) == data_file

\* save_data on the disk as it is: "except Exception" swallows a failing
\* open (the file stays as it was) and a failing dump (the file stays cut off)
Written(cats) ==
    CASE disk = "ok" -> save_data(cats)
      [] disk = "readonly" -> data_file
      [] disk = "full" -> TruncatedFile

\* Category.add_wish: wish.position = len(self.wishes), then append
CategoryAddWish(cat, w) ==
    [cat EXCEPT !.wishes = Append(cat.wishes, [w EXCEPT !.position = Len(cat.wishes)])]

\* the test data load_data falls back to
DefaultDataset ==
    LET category1 == [percent |-> 40, allocated |-> 0, wishes |-> << >>]
        category2 == [percent |-> 60, allocated |-> 0, wishes |-> << >>]
    IN  << CategoryAddWish(CategoryAddWish(category1, WishItem(15000, 3000, 0)),
                           WishItem(10000, 0, 0)),
           CategoryAddWish(CategoryAddWish(category2, WishItem(8000, 0, 0)),
                           WishItem(5000, 0, 0)) >>

\* json.load and every from_dict go through: the file is there, parses, and
\* every wish record has its 'cost' and 'progress'
Loadable(file) ==
    /\ file.exists
    /\ file.parses
    /\ \A c \in 1..Len(file.categories) : \A i \in 1..Len(file.categories[c].wishes) :
           {"cost", "progress"} \subseteq DOMAIN file.categories[c].wishes[i]

\* a load that keeps the categories read before the record that raised
load_data_Partial(file) ==
    IF Loadable(file)
    THEN [c \in 1..Len(file.categories) |-> CategoryFromDict(file.categories[c])]
    ELSE IF file.exists /\ file.parses
         THEN LET good == {n \in 0..Len(file.categories) :
                              Loadable(File(SubSeq(file.categories, 1, n)))}
                  n == CHOOSE n \in good : \A m \in good : m <= n
              IN  [c \in 1..n |-> CategoryFromDict(file.categories[c])]
         ELSE DefaultDataset

\* load_data: the categories of the file when it is there and json.load and
\* every from_dict go through (self.categories is assigned once, after the
\* whole list was built), the test data otherwise
load_data(file) ==
    IF Loadable(file)
    THEN [c \in 1..Len(file.categories) |-> CategoryFromDict(file.categories[c])]
    ELSE DefaultDataset

\* no wishlist_data.json yet
NoFile == [exists |-> FALSE, parses |-> FALSE, categories |-> << >>]

\* Documents found in wishlist_data.json at start-up: one saved with no
\* category left, and one with two categories of one small wish each, the
\* second written by hand: a float cost and no position.
StoredDocs ==
    { << >>,
      << [percent |-> 10,
          wishes |-> << [cost |-> JsonInt(2), progress |-> JsonInt(0),
                         position |-> 0] >>],
         [percent |-> 10,
          wishes |-> << [cost |-> JsonFloat(5), progress |-> JsonInt(1)] >>] >> }

Init ==
    /\ \E doc \in StoredDocs : data_file = File(doc)
    /\ categories = load_data(data_file)
    /\ disk = "ok"
    /\ current_budget = 0
    /\ apply_enabled = FALSE
    /\ remaining_label = 0
    /\ hist = [last |-> "load", follows |-> FALSE]

\* ------------------------------------------------------------ distribution engine
\* "if budget < 0": a budget of 0 is let through
BudgetRejected_Strict(budget) == budget < 0

\* "if budget <= 0": the budget is refused
BudgetRejected(budget) == budget <= 0

\* a reset phase that keeps the earlier preview
ResetWish_Keeps(w) == w

\* the reset phase for one wish: wish.preview_progress = wish.progress
ResetWish(w) == [w EXCEPT !.preview_progress = w.progress]

\* the reset phase: category.allocated = 0 and every preview discarded
CalcReset(cats) ==
    [c \in 1..Len(cats) |->
        [cats[c] EXCEPT !.allocated = 0,
                        !.wishes = [i \in 1..Len(cats[c].wishes) |->
                                        ResetWish(cats[c].wishes[i])]]]

\* total_needed summed over the costs instead of the remaining sums
total_needed_Cost(cats) ==
    SumOver([c \in 1..Len(cats) |->
                SumOver([i \in 1..Len(cats[c].wishes) |-> cats[c].wishes[i].cost],
                        Len(cats[c].wishes))],
            Len(cats))

\* total_needed = sum(category.total_remaining for category in categories)
total_needed(cats) ==
    SumOver([c \in 1..Len(cats) |-> total_remaining(cats[c])], Len(cats))

\* the category takes part in the distribution
Eligible(c) == uncompleted_preview_wishes(c) # << >>

\* total_percent summed over every category, funded or not
total_percent_All(cats) ==
    SumOver([c \in 1..Len(cats) |-> cats[c].percent], Len(cats))

\* total_percent = sum(c.percent for c in categories if c.uncompleted_preview_wishes)
total_percent(cats) ==
    SumOver([c \in 1..Len(cats) |-> IF Eligible(cats[c]) THEN cats[c].percent ELSE 0],
            Len(cats))

\* an envelope that leaves the weight of the category out
Allocation_Unweighted(c, budget, tp) == Min(budget, total_remaining(c))

\* min(round(budget * (category.percent / total_percent)), category.total_remaining)
Allocation(c, budget, tp) ==
    Min(PyRound(budget * c.percent, tp), total_remaining(c))

\* the first loop: category.allocated of every eligible category
AllocateCategories(cats, budget) ==
    LET tp == total_percent(cats)
    IN  [c \in 1..Len(cats) |->
            IF Eligible(cats[c])
            THEN [cats[c] EXCEPT !.allocated = Allocation(cats[c], budget, tp)]
            ELSE cats[c]]

\* to_allocate without the running remaining_budget
ToAllocate_NoBudget(w, category_remaining, remaining_budget) ==
    Min(remaining(w), category_remaining)

\* to_allocate without the envelope of the category
ToAllocate_NoEnvelope(w, category_remaining, remaining_budget) ==
    Min(remaining(w), remaining_budget)

\* to_allocate = min(wish.remaining, category_remaining, remaining_budget)
ToAllocate(w, category_remaining, remaining_budget) ==
    Min(remaining(w), Min(category_remaining, remaining_budget))

\* an allocation written to the committed progress as well
Fund_Committed(w, to_allocate) ==
    [w EXCEPT !.preview_progress = w.preview_progress + to_allocate,
              !.progress = w.progress + to_allocate]

\* an allocation that overwrites the preview instead of adding to it
Fund_Overwrite(w, to_allocate) == [w EXCEPT !.preview_progress = to_allocate]

\* wish.preview_progress += to_allocate
Fund(w, to_allocate) ==
    [w EXCEPT !.preview_progress = w.preview_progress + to_allocate]

RECURSIVE AllocateWishes(_, _, _, _, _)
\* the inner loop over the wishes order[k..] of one category
AllocateWishes(ws, order, k, category_remaining, remaining_budget) ==
    IF k > Len(order) \/ remaining_budget <= 0 \/ category_remaining <= 0
    THEN [wishes |-> ws, remaining_budget |-> remaining_budget]
    ELSE LET i == order[k]
             t == ToAllocate(ws[i], category_remaining, remaining_budget)
         IN  IF t > 0
             THEN AllocateWishes([ws EXCEPT ![i] = Fund(ws[i], t)], order, k + 1,
                                 category_remaining - t, remaining_budget - t)
             ELSE AllocateWishes(ws, order, k + 1, category_remaining,
                                 remaining_budget)

RECURSIVE Distribute(_, _, _)
\* the second loop over the categories c.. with the running remaining_budget
Distribute(cats, c, remaining_budget) ==
    IF c > Len(cats)
    THEN [categories |-> cats, remaining_budget |-> remaining_budget]
    ELSE IF ~Eligible(cats[c]) \/ cats[c].allocated <= 0
         THEN Distribute(cats, c + 1, remaining_budget)
         ELSE LET r == AllocateWishes(
                           cats[c].wishes,
                           SortedByPosition(cats[c].wishes,
                                            uncompleted_preview_wishes(cats[c])),
                           1, cats[c].allocated, remaining_budget)
              IN  Distribute([cats EXCEPT ![c].wishes = r.wishes], c + 1,
                             r.remaining_budget)


\* every wish of every category satisfies P
AllWishes(cats, P(_)) ==
    \A c \in 1..Len(cats) : \A i \in 1..Len(cats[c].wishes) : P(cats[c].wishes[i])

\* the number of wishes in the model
WishCount(cats) == SumOver([c \in 1..Len(cats) |-> Len(cats[c].wishes)], Len(cats))

\* the exploration bound on money
WithinMoney(cats) ==
    AllWishes(cats, LAMBDA w : w.progress <= MaxMoney /\ w.preview_progress <= MaxMoney)

\* calculate_distribution with budget_input.text() = text
calculate_distribution(text) ==
    /\ UNCHANGED disk
    /\ IF text.kind # "num" \/ BudgetRejected(IntRound(text))
       THEN \* "Некорректная сумма" / "Введите положительную сумму": return
            /\ hist' = [last |-> "calc_rejected", follows |-> FALSE]
            /\ UNCHANGED <<categories, current_budget, apply_enabled, remaining_label,
                           data_file>>
       ELSE LET budget == IntRound(text)
                cats1 == CalcReset(categories)
            IN  IF total_needed(cats1) = 0
                THEN \* "Все желания уже выполнены!": return
                     /\ categories' = cats1
                     /\ current_budget' = budget
                     /\ hist' = RecordCalc("calc_nothing", budget)
                     /\ UNCHANGED <<apply_enabled, remaining_label, data_file>>
                ELSE IF total_percent(cats1) <= 0
                THEN \* "Нет незавершенных желаний": return
                     /\ categories' = cats1
                     /\ current_budget' = budget
                     /\ hist' = RecordCalc("calc_noeligible", budget)
                     /\ UNCHANGED <<apply_enabled, remaining_label, data_file>>
                ELSE LET r == Distribute(AllocateCategories(cats1, budget), 1, budget)
                     IN  /\ categories' = r.categories
                         /\ current_budget' = budget
                         /\ apply_enabled' = TRUE
                         /\ remaining_label' = r.remaining_budget
                         /\ hist' = RecordCalc("calc_ok", budget)
                         /\ UNCHANGED data_file

\* a commit that copies nothing
ApplyWish_Noop(w) == w

\* a commit that adds the preview to the progress
ApplyWish_Adds(w) == [w EXCEPT !.progress = w.progress + w.preview_progress]

\* wish.progress = wish.preview_progress
ApplyWish(w) == [w EXCEPT !.progress = w.preview_progress]

\* apply_distribution
apply_distribution ==
    /\ UNCHANGED disk
    /\ categories' = [c \in 1..Len(categories) |->
           [categories[c] EXCEPT !.wishes =
               [i \in 1..Len(categories[c].wishes) |-> ApplyWish(categories[c].wishes[i])]]]
    /\ data_file' = Written(categories')
    /\ apply_enabled' = FALSE
    /\ remaining_label' = 0
    /\ hist' = Record("apply")
    /\ UNCHANGED current_budget

\* a reset that leaves the preview in place
DiscardPreview_Keeps(w) == w

\* a reset that promotes the preview instead of discarding it
DiscardPreview_Commits(w) == [w EXCEPT !.progress = w.preview_progress]

\* wish.preview_progress = wish.progress
DiscardPreview(w) == [w EXCEPT !.preview_progress = w.progress]

\* reset_calculation
reset_calculation ==
    /\ UNCHANGED disk
    /\ categories' = [c \in 1..Len(categories) |->
           [categories[c] EXCEPT !.wishes =
               [i \in 1..Len(categories[c].wishes) |-> DiscardPreview(categories[c].wishes[i])]]]
    /\ apply_enabled' = FALSE
    /\ remaining_label' = 0
    /\ hist' = Record("reset")
    /\ UNCHANGED <<current_budget, data_file>>

\* ------------------------------------------------------------ editing handlers
\* "float(text) if text else 0", then int(round(.)), of a text float() accepts
AmountOf(text) == IF text.kind = "empty" THEN 0 ELSE IntRound(text)

\* new_progress without the clamps to cost and to 0
NewProgress_Unclamped(w, amount, is_positive) ==
    IF is_positive THEN w.progress + amount ELSE w.progress - amount

\* new_progress counted from the preview instead of the progress
NewProgress_FromPreview(w, amount, is_positive) ==
    IF is_positive THEN Min(w.preview_progress + amount, w.cost)
    ELSE Max(0, w.preview_progress - amount)

\* new_progress of adjust_wish_progress
NewProgress(w, amount, is_positive) ==
    IF is_positive THEN Min(w.progress + amount, w.cost)
    ELSE Max(0, w.progress - amount)

\* adjust_wish_progress(wish, amount_text, is_positive) for wish i of category c
adjust_wish_progress(c, i, text, is_positive) ==
    /\ UNCHANGED disk
    /\ hist' = Record("edit")
    /\ UNCHANGED <<current_budget, apply_enabled, remaining_label>>
    /\ IF text.kind = "junk"
       THEN UNCHANGED <<categories, data_file>>
       ELSE LET w == categories[c].wishes[i]
                new_progress == NewProgress(w, AmountOf(text), is_positive)
            IN  /\ categories' = [categories EXCEPT ![c].wishes[i] =
                       [w EXCEPT !.progress = new_progress,
                                 !.preview_progress = new_progress]]
                /\ data_file' = Written(categories')

\* a cost edit that leaves the preview as it is
WithCost_KeepsPreview(w, cost) ==
    [w EXCEPT !.cost = cost, !.progress = Min(w.progress, cost)]

\* the wish after update_wish_cost set its cost
WithCost(w, cost) ==
    LET progress == Min(w.progress, cost)
    IN  [w EXCEPT !.cost = cost, !.progress = progress, !.preview_progress = progress]

\* update_wish_cost(wish, text) for wish i of category c
update_wish_cost(c, i, text) ==
    /\ UNCHANGED disk
    /\ hist' = Record("edit")
    /\ UNCHANGED <<current_budget, apply_enabled, remaining_label>>
    /\ IF text.kind = "junk"
       THEN UNCHANGED <<categories, data_file>>
       ELSE /\ categories' = [categories EXCEPT ![c].wishes[i] =
                                  WithCost(categories[c].wishes[i], AmountOf(text))]
            /\ data_file' = Written(categories')

\* add_wish(category, list_widget)
add_wish(c) ==
    /\ UNCHANGED disk
    /\ categories' = [categories EXCEPT ![c] =
                         CategoryAddWish(categories[c], WishItem(NewWishCost, 0, 0))]
    /\ data_file' = Written(categories')
    /\ hist' = Record("edit")
    /\ UNCHANGED <<current_budget, apply_enabled, remaining_label>>

\* s without its element at index i
RemoveAt(s, i) == SubSeq(s, 1, i - 1) \o SubSeq(s, i + 1, Len(s))

\* delete_wish(wish, list_widget, item) for wish i of category c
delete_wish(c, i) ==
    /\ UNCHANGED disk
    /\ categories' = [categories EXCEPT ![c].wishes = RemoveAt(categories[c].wishes, i)]
    /\ data_file' = Written(categories')
    /\ hist' = Record("edit")
    /\ UNCHANGED <<current_budget, apply_enabled, remaining_label>>

\* update_category_percent(category, percent)
update_category_percent(c, percent) ==
    /\ UNCHANGED disk
    /\ categories' = [categories EXCEPT ![c].percent = percent]
    /\ data_file' = Written(categories')
    /\ hist' = Record("edit")
    /\ UNCHANGED <<current_budget, apply_enabled, remaining_label>>

\* add_category
add_category ==
    /\ UNCHANGED disk
    /\ Len(categories) < MaxCats
    /\ categories' = Append(categories,
                            [percent |-> NewCategoryPercent, allocated |-> 0,
                             wishes |-> << >>])
    /\ data_file' = Written(categories')
    /\ hist' = Record("edit")
    /\ UNCHANGED <<current_budget, apply_enabled, remaining_label>>

\* remove_category(category, group_box)
remove_category(c) ==
    /\ UNCHANGED disk
    /\ categories' = RemoveAt(categories, c)
    /\ data_file' = Written(categories')
    /\ hist' = Record("edit")
    /\ UNCHANGED <<current_budget, apply_enabled, remaining_label>>

\* the orders the rows of a list widget of n items can be left in by drags:
\* rows[k] is the index in category.wishes of the wish shown in row k
RowOrders(n) == {rows \in [1..n -> 1..n] : \A j, k \in 1..n : j # k => rows[j] # rows[k]}

\* update_wish_positions(category, wish_list) for category c, the rows of
\* wish_list being in the order rows: item.wish.position = i for row i
update_wish_positions(c, rows) ==
    /\ UNCHANGED disk
    /\ categories' = [categories EXCEPT ![c].wishes =
           [i \in 1..Len(categories[c].wishes) |->
               [categories[c].wishes[i] EXCEPT
                   !.position = (CHOOSE k \in 1..Len(rows) : rows[k] = i) - 1]]]
    /\ data_file' = Written(categories')
    /\ hist' = Record("edit")
    /\ UNCHANGED <<current_budget, apply_enabled, remaining_label>>

\* closeEvent saves the model; the next start of the program builds a new
\* WishlistApp, which loads the file
restart ==
    /\ UNCHANGED disk
    /\ data_file' = Written(categories)
    /\ categories' = load_data(data_file')
    /\ current_budget' = 0
    /\ apply_enabled' = FALSE
    /\ remaining_label' = 0
    /\ hist' = [last |-> "load", follows |-> FALSE]

\* the values a percent spin box is set to
Percents == {0, 10}

Next ==
    \/ \E text \in Texts : calculate_distribution(text) /\ WithinMoney(categories')
    \/ apply_distribution
    \/ reset_calculation
    \/ \E c \in 1..Len(categories) : \E i \in 1..Len(categories[c].wishes) :
           \E text \in Texts : \E is_positive \in BOOLEAN :
               adjust_wish_progress(c, i, text, is_positive) /\ WithinMoney(categories')
    \/ \E c \in 1..Len(categories) : \E i \in 1..Len(categories[c].wishes) :
           \E text \in Texts : update_wish_cost(c, i, text)
    \/ \E c \in 1..Len(categories) :
           WishCount(categories) < MaxWishes /\ add_wish(c)
    \/ \E c \in 1..Len(categories) : \E i \in 1..Len(categories[c].wishes) :
           delete_wish(c, i)
    \/ \E c \in 1..Len(categories) : \E percent \in Percents :
           update_category_percent(c, percent)
    \/ add_category
    \/ \E c \in 1..Len(categories) : remove_category(c)

Spec == Init /\ [][Next]_vars

\* ------------------------------------------------------------ the engine on its own
\* The models the engine is handed: two categories with weights in tens of
\* percent, wishes with 0 <= progress <= cost <= 2 and no preview pending,
\* the wishes of a category in any order of their positions (a drag reorders
\* the positions, not the list).
EngineCosts == {0, 1, 2}

EngineWishes(n) ==
    {ws \in [1..n -> {WishItem(cost, progress, position) :
                          cost \in EngineCosts, progress \in EngineCosts,
                          position \in 0..(n - 1)}] :
        /\ \A i \in 1..n : ws[i].progress <= ws[i].cost
        /\ \A i, j \in 1..n : i # j => ws[i].position # ws[j].position}

EngineCategories ==
    {[percent |-> 10 * k, allocated |-> 0, wishes |-> ws] :
        k \in 0..MaxEnginePercentTens, ws \in UNION {EngineWishes(n) : n \in 0..2}}

EngineModels ==
    {cats \in [1..2 -> EngineCategories] : WishCount(cats) <= MaxModelWishes}

InitEngine ==
    /\ categories \in EngineModels
    /\ data_file = save_data(categories)
    /\ disk = "ok"
    /\ current_budget = 0
    /\ apply_enabled = FALSE
    /\ remaining_label = 0
    /\ hist = [last |-> "load", follows |-> FALSE]

NextEngine ==
    \/ \E text \in BudgetTexts : calculate_distribution(text)
    \/ apply_distribution
    \/ reset_calculation

SpecEngine == InitEngine /\ [][NextEngine]_vars

\* ------------------------------------------------------------ editing the wishes
\* The stored model with only its wishes edited: no category or wish is
\* added or removed.
NextEdit ==
    \/ \E text \in Texts : calculate_distribution(text) /\ WithinMoney(categories')
    \/ apply_distribution
    \/ reset_calculation
    \/ \E c \in 1..Len(categories) : \E i \in 1..Len(categories[c].wishes) :
           \E text \in Texts : \E is_positive \in BOOLEAN :
               adjust_wish_progress(c, i, text, is_positive) /\ WithinMoney(categories')
    \/ \E c \in 1..Len(categories) : \E i \in 1..Len(categories[c].wishes) :
           \E text \in Texts : update_wish_cost(c, i, text)

SpecEdit == Init /\ [][NextEdit]_vars

\* ------------------------------------------------------------ the first start
\* The program started without a wishlist_data.json: it holds the test data,
\* and budgets in steps of 5000 are distributed and applied.
ScenarioBudgetTexts ==
    {[kind |-> "num", halves |-> 2 * 5000 * k] : k \in 0..MaxScenarioBudgets}

InitScenario ==
    /\ data_file = NoFile
    /\ categories = load_data(data_file)
    /\ disk = "ok"
    /\ current_budget = 0
    /\ apply_enabled = FALSE
    /\ remaining_label = 0
    /\ hist = [last |-> "load", follows |-> FALSE]

NextScenario ==
    \/ \E text \in ScenarioBudgetTexts : calculate_distribution(text)
    \/ apply_distribution
    \/ reset_calculation

SpecScenario == InitScenario /\ [][NextScenario]_vars

\* ------------------------------------------------------------ the wish lists
\* One category whose wishes are added, deleted and dragged.
ListDocs ==
    { << [percent |-> 10,
          wishes |-> << [cost |-> JsonInt(1), progress |-> JsonInt(0), position |-> 0],
                        [cost |-> JsonInt(2), progress |-> JsonInt(0), position |-> 1] >>]
      >> }

InitList ==
    /\ \E doc \in ListDocs : data_file = File(doc)
    /\ categories = load_data(data_file)
    /\ disk = "ok"
    /\ current_budget = 0
    /\ apply_enabled = FALSE
    /\ remaining_label = 0
    /\ hist = [last |-> "load", follows |-> FALSE]

NextList ==
    \/ \E c \in 1..Len(categories) :
           Len(categories[c].wishes) < MaxListWishes /\ add_wish(c)
    \/ \E c \in 1..Len(categories) : \E i \in 1..Len(categories[c].wishes) :
           delete_wish(c, i)
    \/ \E c \in 1..Len(categories) :
           /\ Len(categories[c].wishes) >= 2
           /\ \E rows \in RowOrders(Len(categories[c].wishes)) :
                  update_wish_positions(c, rows)

SpecList == InitList /\ [][NextList]_vars

\* ------------------------------------------------------------ the file
\* Files written by an earlier version or by hand: one category of two
\* wishes, the numbers ints or floats, the position possibly missing.
StoreNumbers ==
    {JsonInt(n) : n \in 1..2} \cup {JsonFloat(h) : h \in 1..MaxDocHalves}

StoreWishRecords ==
    {d \in [cost : StoreNumbers, progress : StoreNumbers]
           \cup [cost : StoreNumbers, progress : StoreNumbers, position : 0..1] :
        FromJson(d.progress) <= FromJson(d.cost)}

StoreDocs ==
    {<< [percent |-> 10, wishes |-> <<d1, d2>>] >> :
        d1 \in StoreWishRecords, d2 \in StoreWishRecords}

\* the budget typed while the file is exercised: 1
StoreBudgetTexts == {[kind |-> "num", halves |-> 2]}

InitStore ==
    /\ \E doc \in StoreDocs : data_file = File(doc)
    /\ categories = load_data(data_file)
    /\ disk = "ok"
    /\ current_budget = 0
    /\ apply_enabled = FALSE
    /\ remaining_label = 0
    /\ hist = [last |-> "load", follows |-> FALSE]

NextStore ==
    \/ \E text \in StoreBudgetTexts : calculate_distribution(text)
    \/ apply_distribution
    \/ reset_calculation
    \/ \E c \in 1..Len(categories) :
           /\ Len(categories[c].wishes) >= 2
           /\ \E rows \in RowOrders(Len(categories[c].wishes)) :
                  update_wish_positions(c, rows)
    \/ restart

SpecStore == InitStore /\ [][NextStore]_vars

\* ------------------------------------------------------------ the disk
\* the disk becomes d: writable, read-only or full
disk_changes(d) ==
    /\ d # disk
    /\ disk' = d
    /\ UNCHANGED <<categories, current_budget, apply_enabled, remaining_label,
                   data_file, hist>>

\* the states of the disk
Disks == {"ok", "readonly", "full"}

\* Every handler that saves, on a disk that takes the writes: files of one
\* category, written by the program or by hand with a float cost.
\* The categories and the wishes together are at most MaxSyncItems.
MaxSyncItems == 3

\* the number of categories and wishes of the model
ItemCount(cats) == Len(cats) + WishCount(cats)

SyncDocs ==
    ListDocs
    \cup { << [percent |-> 10,
               wishes |-> << [cost |-> JsonFloat(3), progress |-> JsonInt(0)] >>] >> }

\* the texts typed while the file is followed: junk and 1
SyncTexts == {[kind |-> "junk", halves |-> 0], [kind |-> "num", halves |-> 2]}

InitSync ==
    /\ \E doc \in SyncDocs : data_file = File(doc)
    /\ categories = load_data(data_file)
    /\ disk = "ok"
    /\ current_budget = 0
    /\ apply_enabled = FALSE
    /\ remaining_label = 0
    /\ hist = [last |-> "load", follows |-> FALSE]

NextSync ==
    \/ \E text \in SyncTexts : calculate_distribution(text) /\ WithinMoney(categories')
    \/ apply_distribution
    \/ reset_calculation
    \/ \E c \in 1..Len(categories) : \E i \in 1..Len(categories[c].wishes) :
           \E text \in SyncTexts : \E is_positive \in BOOLEAN :
               adjust_wish_progress(c, i, text, is_positive) /\ WithinMoney(categories')
    \/ \E c \in 1..Len(categories) : \E i \in 1..Len(categories[c].wishes) :
           \E text \in SyncTexts : update_wish_cost(c, i, text)
    \/ \E c \in 1..Len(categories) :
           ItemCount(categories) < MaxSyncItems /\ add_wish(c)
    \/ \E c \in 1..Len(categories) : \E i \in 1..Len(categories[c].wishes) :
           delete_wish(c, i)
    \/ \E c \in 1..Len(categories) : \E percent \in Percents :
           update_category_percent(c, percent)
    \/ ItemCount(categories) < MaxSyncItems /\ add_category
    \/ \E c \in 1..Len(categories) : remove_category(c)
    \/ \E c \in 1..Len(categories) :
           /\ Len(categories[c].wishes) >= 2
           /\ \E rows \in RowOrders(Len(categories[c].wishes)) :
                  update_wish_positions(c, rows)

SpecSync == InitSync /\ [][NextSync]_vars

\* ------------------------------------------------------------ failures
\* The program started on a file that is missing, cut off, or has a wish
\* record without its cost or its progress after records that are complete,
\* and on a file that loads; the disk stops and resumes taking writes while
\* budgets are distributed and applied, wishes are deleted and the program is
\* restarted.
FailDocs ==
    LET good == [cost |-> JsonInt(1), progress |-> JsonInt(0), position |-> 0]
        nocost == [progress |-> JsonInt(0), position |-> 1]
        noprogress == [cost |-> JsonInt(1), position |-> 1]
    IN  { << [percent |-> 10, wishes |-> <<good>>] >>,
          << [percent |-> 10, wishes |-> <<good>>],
             [percent |-> 10, wishes |-> <<nocost>>] >>,
          << [percent |-> 10, wishes |-> <<good, noprogress>>] >> }

\* the budget typed while the disk fails: 5000
FailBudgetTexts == {[kind |-> "num", halves |-> 2 * 5000]}

FailFiles == {NoFile, TruncatedFile} \cup {File(doc) : doc \in FailDocs}

InitFail ==
    /\ data_file \in FailFiles
    /\ categories = load_data(data_file)
    /\ disk = "ok"
    /\ current_budget = 0
    /\ apply_enabled = FALSE
    /\ remaining_label = 0
    /\ hist = [last |-> "load", follows |-> FALSE]

NextFail ==
    \/ \E text \in FailBudgetTexts : calculate_distribution(text)
    \/ apply_distribution
    \/ reset_calculation
    \/ \E c \in 1..Len(categories) : \E i \in 1..Len(categories[c].wishes) :
           delete_wish(c, i)
    \/ restart
    \/ \E d \in Disks : disk_changes(d)

SpecFail == InitFail /\ [][NextFail]_vars


\* ------------------------------------------------------------ properties
\* sum of f(w) over every wish of every category
SumWishes(cats, f(_)) ==
    SumOver([c \in 1..Len(cats) |->
                SumOver([i \in 1..Len(cats[c].wishes) |-> f(cats[c].wishes[i])],
                        Len(cats[c].wishes))],
            Len(cats))

SomeWish(cats, P(_)) ==
    \E c \in 1..Len(cats) : \E i \in 1..Len(cats[c].wishes) : P(cats[c].wishes[i])

\* the labels of a calculate_distribution that got past the budget checks
CalcRan == {"calc_ok", "calc_nothing", "calc_noeligible"}
CalcAny == CalcRan \cup {"calc_rejected"}

\* the committed part of the model: what save_data writes
Committed(cats) ==
    [c \in 1..Len(cats) |->
        [percent |-> cats[c].percent,
         wishes |-> [i \in 1..Len(cats[c].wishes) |->
                        [cost |-> cats[c].wishes[i].cost,
                         progress |-> cats[c].wishes[i].progress,
                         position |-> cats[c].wishes[i].position]]]]

\* the two models have the same categories with the same number of wishes
SameShape(a, b) ==
    /\ Len(a) = Len(b)
    /\ \A c \in 1..Len(a) : Len(a[c].wishes) = Len(b[c].wishes)

\* C1: in every reachable state every wish has 0 <= progress <= cost and
\* 0 <= preview_progress <= cost.
C1_ProgressWithinCost ==
    AllWishes(categories,
              LAMBDA w : /\ 0 <= w.progress /\ w.progress <= w.cost
                         /\ 0 <= w.preview_progress /\ w.preview_progress <= w.cost)

\* a distribution has filled a wish up to its cost
C1_Witness ==
    /\ hist.last = "calc_ok"
    /\ SomeWish(categories,
                LAMBDA w : w.preview_progress = w.cost /\ w.progress < w.cost)

\* C2: preview_progress equals progress for every wish unless a preview is
\* pending (a successful calculate_distribution not yet followed by apply or
\* reset); and right after a calculate_distribution that found nothing to
\* fund or no eligible category the two are equal as well.
C2_PreviewEqualsProgressUnlessPending ==
    (~apply_enabled \/ hist.last \in {"calc_nothing", "calc_noeligible"})
        => AllWishes(categories, LAMBDA w : w.preview_progress = w.progress)

\* a reset right after a successful distribution
C2_Witness ==
    /\ hist.last = "reset" /\ hist.follows
    /\ \E c \in 1..Len(categories) : categories[c].allocated > 0

\* C3: right after a successful calculate_distribution the previews exceed
\* the committed progress by budget - remainder in total, the remainder is
\* not negative, and so the total is at most the budget.
C3_Conservation ==
    hist.last = "calc_ok" =>
        LET given == SumWishes(categories, LAMBDA w : w.preview_progress - w.progress)
        IN  /\ remaining_label >= 0
            /\ given = current_budget - remaining_label
            /\ given <= current_budget

\* the envelopes add up to more than the budget and the whole budget is placed
C3_Witness ==
    /\ hist.last = "calc_ok"
    /\ SumOver([c \in 1..Len(categories) |-> categories[c].allocated], Len(categories))
           > current_budget
    /\ remaining_label = 0

\* C4: calculate_distribution leaves the committed state alone: the
\* categories, their percent, and the cost, progress and position of every
\* wish are the same after the call, whatever the budget text was.
C4_CalcKeepsCommitted ==
    [][hist'.last \in CalcAny => Committed(categories') = Committed(categories)]_vars

\* a distribution that gave some wish a preview above its progress
C4_Witness ==
    /\ hist.last = "calc_ok"
    /\ SomeWish(categories, LAMBDA w : w.preview_progress > w.progress)
    /\ current_budget > 1

\* C5 (as claimed): right after a successful calculate_distribution the
\* allocated sums of the categories add up to at most the budget.
C5_AllocatedWithinBudget ==
    hist.last = "calc_ok" =>
        SumOver([c \in 1..Len(categories) |-> categories[c].allocated], Len(categories))
            <= current_budget


\* C6: apply_distribution right after a successful calculate_distribution
\* gives every wish the progress its preview had and leaves preview equal to
\* progress; a reset_calculation that follows changes no wish, and a
\* successful calculate_distribution that follows keeps the new progress and
\* puts its previews on top of it.
C6_CommitTakesPreview ==
    [][/\ (hist.last = "calc_ok" /\ hist'.last = "apply") =>
              /\ SameShape(categories, categories')
              /\ \A c \in 1..Len(categories) : \A i \in 1..Len(categories[c].wishes) :
                     /\ categories'[c].wishes[i].progress
                            = categories[c].wishes[i].preview_progress
                     /\ categories'[c].wishes[i].preview_progress
                            = categories'[c].wishes[i].progress
       /\ (hist.last = "apply" /\ hist'.last = "reset") => categories' = categories
       /\ (hist.last = "apply" /\ hist'.last = "calc_ok") =>
              /\ SameShape(categories, categories')
              /\ \A c \in 1..Len(categories) : \A i \in 1..Len(categories[c].wishes) :
                     /\ categories'[c].wishes[i].progress
                            = categories[c].wishes[i].progress
                     /\ categories'[c].wishes[i].preview_progress
                            >= categories[c].wishes[i].progress
      ]_vars

\* a commit right after a distribution that allocated something
C6_Witness ==
    /\ hist.last = "apply" /\ hist.follows
    /\ \E c \in 1..Len(categories) : categories[c].allocated > 0
    /\ SomeWish(categories, LAMBDA w : w.progress > 0 /\ w.progress < w.cost)

\* C7: reset_calculation right after a calculate_distribution, however that
\* one returned, leaves preview equal to progress for every wish, and neither
\* the calculate_distribution nor the reset changes a progress or a cost.
C7_ResetRestores ==
    [][/\ hist'.last \in CalcAny =>
              /\ SameShape(categories, categories')
              /\ \A c \in 1..Len(categories) : \A i \in 1..Len(categories[c].wishes) :
                     /\ categories'[c].wishes[i].progress = categories[c].wishes[i].progress
                     /\ categories'[c].wishes[i].cost = categories[c].wishes[i].cost
       /\ (hist.last \in CalcAny /\ hist'.last = "reset") =>
              /\ SameShape(categories, categories')
              /\ \A c \in 1..Len(categories) : \A i \in 1..Len(categories[c].wishes) :
                     /\ categories'[c].wishes[i].progress = categories[c].wishes[i].progress
                     /\ categories'[c].wishes[i].cost = categories[c].wishes[i].cost
                     /\ categories'[c].wishes[i].preview_progress
                            = categories'[c].wishes[i].progress
      ]_vars

\* a reset right after a distribution, with every preview back on a progress
\* that is short of the cost
C7_Witness ==
    /\ hist.last = "reset" /\ hist.follows
    /\ ~apply_enabled
    /\ SomeWish(categories, LAMBDA w : w.progress < w.cost)
    /\ current_budget > 0

\* C8: a calculate_distribution that follows another one with the same
\* budget, nothing in between, leaves every preview_progress, every allocated
\* and the displayed remainder as the first call set them.
C8_CalcTwiceSame ==
    [][(/\ hist.last \in CalcRan
        /\ hist'.last \in CalcRan
        /\ current_budget' = current_budget)
           => /\ categories' = categories
              /\ remaining_label' = remaining_label]_vars

\* a second successful distribution with the budget of the first
C8_Witness ==
    /\ hist.last = "calc_ok" /\ hist.follows
    /\ SomeWish(categories, LAMBDA w : w.preview_progress > w.progress)

\* the numeric texts that round to a budget of 0 or less
RejectedBudgetTexts ==
    {text \in Texts \cup BudgetTexts : text.kind = "num" /\ IntRound(text) <= 0}

\* C9: calculate_distribution with a budget that rounds to 0 or less is
\* rejected and changes nothing: categories (progress, preview, allocated),
\* current_budget, the pending flag and the displayed remainder keep their
\* values, also while a preview is pending.
C9_RejectedBudgetNoChange ==
    [][(/\ hist'.last \in CalcAny
        /\ \E text \in RejectedBudgetTexts : calculate_distribution(text))
           => /\ hist'.last = "calc_rejected"
              /\ UNCHANGED <<categories, current_budget, apply_enabled,
                             remaining_label>>]_vars

\* a budget was rejected while a preview was pending
C9_Witness ==
    /\ hist.last = "calc_rejected"
    /\ apply_enabled
    /\ SomeWish(categories, LAMBDA w : w.preview_progress > w.progress)

\* every wish is fully funded
AllFunded(cats) == AllWishes(cats, LAMBDA w : w.progress = w.cost)

\* the numeric texts that round to a positive budget
PositiveBudgetTexts ==
    {text \in Texts \cup BudgetTexts : text.kind = "num" /\ IntRound(text) > 0}

\* C10 (as claimed): with wishes in the model and every wish at progress =
\* cost, a calculate_distribution with a positive budget reports nothing to
\* fund and leaves progress, preview, allocated and current_budget as they
\* were.
C10_NothingToFundNoChange ==
    [][(/\ AllFunded(categories)
        /\ SomeWish(categories, LAMBDA w : w.cost > 0)
        /\ hist'.last \in CalcAny
        /\ \E text \in PositiveBudgetTexts : calculate_distribution(text))
           => /\ hist'.last = "calc_nothing"
              /\ UNCHANGED <<categories, current_budget>>]_vars

\* C10 (amended): with every wish at progress = cost, a
\* calculate_distribution with a positive budget reports nothing to fund and
\* leaves every wish (cost, progress, preview, position), every percent and
\* the pending flag as they were; every allocated is 0 afterwards and
\* current_budget is the budget submitted.
C10_NothingToFundKeepsWishes ==
    [][(hist'.last \in CalcAny /\ AllFunded(categories)) =>
          \A text \in PositiveBudgetTexts :
              calculate_distribution(text)
                  => /\ hist'.last = "calc_nothing"
                     /\ SameShape(categories, categories')
                     /\ \A c \in 1..Len(categories) :
                            /\ categories'[c].wishes = categories[c].wishes
                            /\ categories'[c].percent = categories[c].percent
                            /\ categories'[c].allocated = 0
                     /\ current_budget' = IntRound(text)
                     /\ UNCHANGED <<apply_enabled, remaining_label>>]_vars

\* nothing to fund was reported for a model that has wishes, all funded,
\* while an earlier preview was still pending
C10_Witness ==
    /\ hist.last = "calc_nothing"
    /\ SomeWish(categories, LAMBDA w : w.cost > 0)
    /\ AllFunded(categories)
    /\ apply_enabled

\* C11 (as claimed, for the wishes): a calculate_distribution that reports no
\* eligible category leaves the progress and the preview_progress of every
\* wish as they were before the call, also when a preview was pending, and
\* leaves the pending flag as it was.  (The claim says the same of allocated,
\* which the call sets to 0 as well.)
C11_NoEligibleNoChange ==
    [][hist'.last = "calc_noeligible" =>
          /\ SameShape(categories, categories')
          /\ apply_enabled' = apply_enabled
          /\ \A c \in 1..Len(categories) : \A i \in 1..Len(categories[c].wishes) :
                 /\ categories'[c].wishes[i].progress
                        = categories[c].wishes[i].progress
                 /\ categories'[c].wishes[i].preview_progress
                        = categories[c].wishes[i].preview_progress]_vars

\* the texts that are no number, empty or zero (a minus sign cannot be typed)
InvalidTexts ==
    {text \in Texts : text.kind \in {"empty", "junk"}
                        \/ (text.kind = "num" /\ text.halves = 0)}

\* C12 (as claimed): update_wish_cost and adjust_wish_progress with a text
\* that is no number, empty or zero leave the cost, the progress and the
\* preview_progress of the wish as they were, with or without a preview
\* pending.
C12_InvalidEditNoChange ==
    [][hist'.last = "edit" =>
          \A c \in 1..Len(categories) : \A i \in 1..Len(categories[c].wishes) :
              \A text \in InvalidTexts :
                  (\/ update_wish_cost(c, i, text)
                   \/ \E is_positive \in BOOLEAN :
                          adjust_wish_progress(c, i, text, is_positive))
                      => /\ categories'[c].wishes[i].cost = categories[c].wishes[i].cost
                         /\ categories'[c].wishes[i].progress
                                = categories[c].wishes[i].progress
                         /\ categories'[c].wishes[i].preview_progress
                                = categories[c].wishes[i].preview_progress]_vars

\* the committed model of scenario A: Electronics (40) with Laptop and Phone,
\* Clothes (60) with Jacket and Sneakers
ScenarioA ==
    << [percent |-> 40,
        wishes |-> << [cost |-> 15000, progress |-> 3000, position |-> 0],
                      [cost |-> 10000, progress |-> 0, position |-> 1] >>],
       [percent |-> 60,
        wishes |-> << [cost |-> 8000, progress |-> 0, position |-> 0],
                      [cost |-> 5000, progress |-> 0, position |-> 1] >>] >>

\* C13: right after calculate_distribution with budget 10000 on the model of
\* scenario A, allocated is 4000 for Electronics and 6000 for Clothes, the
\* previews are Laptop 7000, Phone 0, Jacket 6000, Sneakers 0, and nothing of
\* the budget is left over.
C13_ScenarioA ==
    (/\ hist.last = "calc_ok"
     /\ current_budget = 10000
     /\ Committed(categories) = ScenarioA)
        => /\ categories[1].allocated = 4000
           /\ categories[2].allocated = 6000
           /\ categories[1].wishes[1].preview_progress = 7000
           /\ categories[1].wishes[2].preview_progress = 0
           /\ categories[2].wishes[1].preview_progress = 6000
           /\ categories[2].wishes[2].preview_progress = 0
           /\ remaining_label = 0

\* the test data the program starts with is the model of scenario A, and
\* 10000 has just been distributed over it
C13_Witness ==
    /\ hist.last = "calc_ok"
    /\ current_budget = 10000
    /\ Committed(categories) = ScenarioA
    /\ ~data_file.exists

\* C14 (as claimed): in every state reached by add_wish, delete_wish and
\* drags, the wishes of a category have pairwise distinct positions.
C14_PositionsDistinct ==
    \A c \in 1..Len(categories) : \A i, j \in 1..Len(categories[c].wishes) :
        i # j => categories[c].wishes[i].position # categories[c].wishes[j].position

\* C18 (as claimed): the wish add_wish has just added to a category is
\* ordered after every wish that was in the category: sorted by position it
\* comes last, and so it is the last of them calculate_distribution funds.
C18_AddedWishLast ==
    [][\A c \in 1..Len(categories) :
          (/\ Len(categories') = Len(categories)
           /\ Len(categories'[c].wishes) = Len(categories[c].wishes) + 1)
              => LET ws == categories'[c].wishes
                     order == SortedByPosition(ws, [i \in 1..Len(ws) |-> i])
                 IN  order[Len(order)] = Len(ws)]_vars

\* n is the integer nearest to the JSON number x, the even one of the two
\* when x lies halfway
RoundedFrom(n, x) ==
    LET d == 2 * n - x.halves
    IN  d \in -1..1 /\ (d # 0 => n % 2 = 0)

\* the wishes ws are in ascending order of position
AscendingPositions(ws) ==
    \A k \in 1..(Len(ws) - 1) : ws[k].position <= ws[k + 1].position

\* C15: saving the model and loading what was saved gives the same
\* categories in the same order with the same percent, and in each category
\* the same wishes (cost, progress, position, all written as ints), in
\* ascending order of position, each with preview_progress equal to
\* progress; a model that has just been loaded is in ascending order of
\* position, holds for every number of the file the nearest integer, for a
\* missing position 0, and comes back from a save and load unchanged.
C15_SaveLoadRoundTrip ==
    /\ LET saved == save_data(categories)
           m == load_data(saved)
       IN  /\ Len(m) = Len(categories)
           /\ \A c \in 1..Len(categories) :
                  /\ m[c].percent = categories[c].percent
                  /\ Len(m[c].wishes) = Len(categories[c].wishes)
                  /\ AscendingPositions(m[c].wishes)
                  /\ \A i \in 1..Len(categories[c].wishes) :
                         /\ ~saved.categories[c].wishes[i].cost.float
                         /\ ~saved.categories[c].wishes[i].progress.float
                  /\ \E rows \in RowOrders(Len(categories[c].wishes)) :
                         \A k \in 1..Len(rows) :
                             LET w == categories[c].wishes[rows[k]]
                             IN  m[c].wishes[k] =
                                     [cost |-> w.cost, progress |-> w.progress,
                                      preview_progress |-> w.progress,
                                      position |-> w.position]
    /\ (hist.last = "load" /\ data_file.exists) =>
           LET doc == data_file.categories
           IN  /\ Len(categories) = Len(doc)
               /\ load_data(save_data(categories)) = categories
               /\ \A c \in 1..Len(doc) :
                      /\ categories[c].percent = doc[c].percent
                      /\ Len(categories[c].wishes) = Len(doc[c].wishes)
                      /\ AscendingPositions(categories[c].wishes)
                      /\ \E rows \in RowOrders(Len(doc[c].wishes)) :
                             \A k \in 1..Len(rows) :
                                 LET w == categories[c].wishes[k]
                                     d == doc[c].wishes[rows[k]]
                                 IN  /\ RoundedFrom(w.cost, d.cost)
                                     /\ RoundedFrom(w.progress, d.progress)
                                     /\ w.preview_progress = w.progress
                                     /\ w.position = IF "position" \in DOMAIN d
                                                      THEN d.position ELSE 0

\* a preview is pending and a drag has left the list of the category out of
\* the order of its positions: a save and load reorders the wishes and drops
\* the preview
C15_Witness ==
    /\ apply_enabled
    /\ Len(categories) = 1 /\ Len(categories[1].wishes) = 2
    /\ categories[1].wishes[1].position > categories[1].wishes[2].position
    /\ SomeWish(categories, LAMBDA w : w.preview_progress > w.progress)

\* r is the integer nearest to n / d, the even one of the two when n / d lies
\* halfway
IsRound(r, n, d) ==
    LET e == 2 * (r * d - n)
    IN  e \in (0 - d)..d /\ ((e = d \/ e = 0 - d) => r % 2 = 0)

\* the category has a wish with progress < cost
Needy(c) == \E i \in 1..Len(c.wishes) : c.wishes[i].progress < c.wishes[i].cost

\* C16: right after a successful calculate_distribution every category with
\* a wish short of its cost has allocated = min(round(budget * percent /
\* totalPercent), totalRemaining), totalPercent being the sum of percent over
\* the categories with such a wish, and every other category has allocated 0.
C16_AllocationFormula ==
    hist.last = "calc_ok" =>
        LET totalPercent ==
                SumOver([c \in 1..Len(categories) |->
                            IF Needy(categories[c]) THEN categories[c].percent ELSE 0],
                        Len(categories))
        IN  \A c \in 1..Len(categories) :
                IF Needy(categories[c])
                THEN LET ws == categories[c].wishes
                         totalRemaining ==
                             SumOver([i \in 1..Len(ws) |-> ws[i].cost - ws[i].progress],
                                     Len(ws))
                     IN  \E r \in 0..current_budget :
                             /\ IsRound(r, current_budget * categories[c].percent,
                                        totalPercent)
                             /\ categories[c].allocated = Min(r, totalRemaining)
                ELSE categories[c].allocated = 0

\* the whole budget went to one category while the other one, fully funded,
\* has a weight of its own
C16_Witness ==
    /\ hist.last = "calc_ok"
    /\ \E c, d \in 1..Len(categories) :
           /\ Needy(categories[c])
           /\ categories[c].allocated = current_budget
           /\ current_budget > 1
           /\ ~Needy(categories[d])
           /\ categories[d].percent > 0
           /\ Len(categories[d].wishes) > 0

\* C17: right after a successful calculate_distribution, if a wish is left
\* with preview_progress < cost, no wish of its category with a larger
\* position was given anything (its preview_progress equals its progress).
C17_PriorityOrder ==
    hist.last = "calc_ok" =>
        \A c \in 1..Len(categories) : \A i, j \in 1..Len(categories[c].wishes) :
            LET ws == categories[c].wishes
            IN  (ws[i].preview_progress < ws[i].cost /\ ws[j].position > ws[i].position)
                    => ws[j].preview_progress = ws[j].progress

\* the wish that comes second in the list but first by position was funded
\* in part, and the other one, still short of its cost, got nothing
C17_Witness ==
    /\ hist.last = "calc_ok"
    /\ \E c \in 1..Len(categories) :
           /\ Len(categories[c].wishes) = 2
           /\ LET ws == categories[c].wishes
              IN  /\ ws[1].position > ws[2].position
                  /\ ws[2].preview_progress > ws[2].progress
                  /\ ws[2].preview_progress < ws[2].cost
                  /\ ws[1].progress < ws[1].cost
                  /\ ws[1].preview_progress = ws[1].progress

\* the texts float() reads as a number
NumberTexts == {text \in Texts : text.kind = "num"}

\* x brought into lo..hi
Clamp(x, lo, hi) == Max(lo, Min(x, hi))

\* C19: adjust_wish_progress with an amount sets the progress and the
\* preview_progress of the wish to clamp(progress + amount, 0, cost) for '+'
\* and clamp(progress - amount, 0, cost) for '-', counted from the committed
\* progress whatever the preview was, and changes nothing else in the model.
C19_AdjustSetsBoth ==
    [][hist'.last = "edit" =>
          \A c \in 1..Len(categories) : \A i \in 1..Len(categories[c].wishes) :
              \A text \in NumberTexts : \A is_positive \in BOOLEAN :
                  adjust_wish_progress(c, i, text, is_positive) =>
                      LET w == categories[c].wishes[i]
                          amount == IntRound(text)
                          target == IF is_positive
                                    THEN Clamp(w.progress + amount, 0, w.cost)
                                    ELSE Clamp(w.progress - amount, 0, w.cost)
                      IN  categories' = [categories EXCEPT ![c].wishes[i] =
                              [cost |-> w.cost, position |-> w.position,
                               progress |-> target, preview_progress |-> target]]
      ]_vars

\* an adjustment right after a distribution took a wish below the progress
\* it had and dropped its preview, while another wish keeps its preview
C19_Witness ==
    /\ hist.last = "edit" /\ hist.follows
    /\ apply_enabled
    /\ SomeWish(categories, LAMBDA w : w.preview_progress > w.progress)
    /\ SomeWish(categories,
                LAMBDA w : w.cost = 2 /\ w.progress = 0 /\ w.preview_progress = 0)

\* C20: update_wish_cost with a number while a preview is pending sets the
\* cost, sets the progress of the wish to min(progress, cost) (so a cost that
\* is not below the progress leaves the progress as it is) and its
\* preview_progress to that progress, and changes no other wish.
C20_CostEditResyncs ==
    [][(hist'.last = "edit" /\ apply_enabled) =>
          \A c \in 1..Len(categories) : \A i \in 1..Len(categories[c].wishes) :
              \A text \in NumberTexts :
                  update_wish_cost(c, i, text) =>
                      LET w == categories[c].wishes[i]
                          cost == IntRound(text)
                          progress == IF cost >= w.progress THEN w.progress ELSE cost
                      IN  categories' = [categories EXCEPT ![c].wishes[i] =
                              [cost |-> cost, position |-> w.position,
                               progress |-> progress, preview_progress |-> progress]]
      ]_vars

\* a cost edit right after a distribution left a wish at cost 1 with its
\* preview back on its progress, while another wish keeps its preview
C20_Witness ==
    /\ hist.last = "edit" /\ hist.follows
    /\ apply_enabled
    /\ SomeWish(categories, LAMBDA w : w.preview_progress > w.progress)
    /\ SomeWish(categories,
                LAMBDA w : w.cost = 1 /\ w.progress = 1 /\ w.preview_progress = 1)

\* every wish has progress <= preview_progress
PreviewNotBelow(cats) == AllWishes(cats, LAMBDA w : w.preview_progress >= w.progress)

\* C21: in every state every wish has preview_progress >= progress; after
\* any calculate_distribution every wish has progress <= preview_progress <=
\* cost; and apply_distribution never lowers the progress of a wish.
C21_PreviewNotBelowProgress ==
    [][/\ PreviewNotBelow(categories)
       /\ PreviewNotBelow(categories')
       /\ hist'.last \in CalcAny =>
              AllWishes(categories',
                        LAMBDA w : w.progress <= w.preview_progress
                                   /\ w.preview_progress <= w.cost)
       /\ hist'.last = "apply" =>
              /\ SameShape(categories, categories')
              /\ \A c \in 1..Len(categories) : \A i \in 1..Len(categories[c].wishes) :
                     categories'[c].wishes[i].progress >= categories[c].wishes[i].progress
      ]_vars

\* a commit right after a distribution raised the progress of a wish that had
\* some progress already
C21_Witness ==
    /\ hist.last = "apply" /\ hist.follows
    /\ SomeWish(categories, LAMBDA w : w.progress = 2 /\ w.cost = 2)
    /\ \E c \in 1..Len(categories) : categories[c].allocated > 0
    /\ current_budget = 1

\* what the wishes of category c were given: the sum of preview_progress -
\* progress
Given(c) ==
    SumOver([i \in 1..Len(c.wishes) |-> c.wishes[i].preview_progress - c.wishes[i].progress],
            Len(c.wishes))

\* C24: right after a successful calculate_distribution the wishes of every
\* category were given at most the allocated of the category.
C24_WithinEnvelope ==
    hist.last = "calc_ok" =>
        \A c \in 1..Len(categories) : Given(categories[c]) <= categories[c].allocated

\* the first category used up its envelope and the shared budget ran out
\* before the second one had all of its own
C24_Witness ==
    /\ hist.last = "calc_ok"
    /\ Len(categories) = 2
    /\ categories[1].allocated > 0
    /\ Given(categories[1]) = categories[1].allocated
    /\ Given(categories[2]) > 0
    /\ Given(categories[2]) < categories[2].allocated

\* no wish has a preview that differs from its progress
NoPreview(cats) == AllWishes(cats, LAMBDA w : w.preview_progress = w.progress)

\* C25: with preview_progress = progress for every wish, apply_distribution
\* and reset_calculation leave every wish as it is; a second
\* apply_distribution right after one, and a second reset_calculation right
\* after one, change nothing.
C25_CommitResetNoOps ==
    [][/\ (hist'.last \in {"apply", "reset"} /\ NoPreview(categories))
              => categories' = categories
       /\ (hist.last = "apply" /\ hist'.last = "apply")
              => /\ categories' = categories
                 /\ UNCHANGED <<current_budget, apply_enabled, remaining_label>>
       /\ (hist.last = "reset" /\ hist'.last = "reset")
              => /\ categories' = categories
                 /\ UNCHANGED <<current_budget, apply_enabled, remaining_label>>
      ]_vars

\* a commit in a program that never distributed a budget, with a wish that
\* has some progress
C25_Witness ==
    /\ hist.last = "apply" /\ ~hist.follows
    /\ current_budget = 0
    /\ SomeWish(categories, LAMBDA w : w.progress > 0 /\ w.progress < w.cost)

\* every category with a wish short of its cost has a positive percent
NeedyWeighted(cats) ==
    \A c \in 1..Len(cats) : Needy(cats[c]) => cats[c].percent > 0

\* C26 (as claimed, for one call): right after a successful
\* calculate_distribution on a model in which every category with a wish
\* short of its cost has a positive percent, some wish has preview_progress >
\* progress, so that repeating the call and apply_distribution gets nearer to
\* every wish funded each time.
C26_EachCallAllocates ==
    (hist.last = "calc_ok" /\ NeedyWeighted(categories))
        => SomeWish(categories, LAMBDA w : w.preview_progress > w.progress)

\* the file holds, category by category and wish by wish, the percent and the
\* cost, progress and position of the model, the numbers as ints
InSync(file, cats) ==
    /\ file.exists /\ file.parses
    /\ Len(file.categories) = Len(cats)
    /\ \A c \in 1..Len(cats) :
           /\ file.categories[c].percent = cats[c].percent
           /\ Len(file.categories[c].wishes) = Len(cats[c].wishes)
           /\ \A i \in 1..Len(cats[c].wishes) :
                  LET d == file.categories[c].wishes[i]
                      w == cats[c].wishes[i]
                  IN  /\ DOMAIN d = {"cost", "progress", "position"}
                      /\ ~d.cost.float /\ d.cost.halves = 2 * w.cost
                      /\ ~d.progress.float /\ d.progress.halves = 2 * w.progress
                      /\ d.position = w.position

\* C22: while the disk takes the writes, after every handler that changes a
\* saved field (a percent, a category or wish added or removed, the cost,
\* progress or position of a wish, apply_distribution) the file holds the
\* model as to_dict gives it; calculate_distribution and reset_calculation
\* leave the file alone and change no saved field, so a file that held the
\* model before them holds it after them.
C22_StoredInSync ==
    [][/\ (/\ hist'.last \in {"edit", "apply"}
           /\ disk = "ok" /\ disk' = "ok"
           /\ Committed(categories') # Committed(categories))
              => InSync(data_file', categories')
       /\ (hist'.last \in CalcAny \cup {"reset"})
              => /\ data_file' = data_file
                 /\ Committed(categories') = Committed(categories)
                 /\ InSync(data_file, categories) => InSync(data_file', categories')
      ]_vars

\* a budget was distributed and applied after the wishes were dragged into
\* another order: the file holds the new progress and the new positions
C22_Witness ==
    /\ hist.last = "apply" /\ hist.follows
    /\ disk = "ok"
    /\ InSync(data_file, categories)
    /\ \E c \in 1..Len(categories) :
           /\ Len(categories[c].wishes) = 2
           /\ categories[c].wishes[1].position = 1
           /\ categories[c].wishes[2].position = 0
           /\ \E i \in 1..2 : categories[c].wishes[i].progress > 0

\* the model is the test data as load_data builds it, nothing previewed or
\* allocated
IsDefault(cats) ==
    /\ Committed(cats) = ScenarioA
    /\ NoPreview(cats)
    /\ \A c \in 1..Len(cats) : cats[c].allocated = 0

\* C23: right after a load from a file that is missing, does not parse or
\* has a wish record without its cost or progress, the model is the test data
\* (two categories, four wishes), whatever records came before the bad one;
\* and when the disk does not take the write, apply_distribution still gives
\* every wish its preview as progress, disables the apply button and clears
\* the remaining label, and delete_wish still removes the wish and nothing
\* else.
C23_FailuresNotFatal ==
    /\ [](hist.last = "load" /\ ~Loadable(data_file) => IsDefault(categories))
    /\ [][(disk # "ok" /\ disk' = disk)
              => /\ (hist'.last = "apply")
                        => /\ SameShape(categories', categories)
                           /\ \A c \in 1..Len(categories) :
                                  \A i \in 1..Len(categories[c].wishes) :
                                      categories'[c].wishes[i] =
                                          [categories[c].wishes[i] EXCEPT
                                              !.progress =
                                                  categories[c].wishes[i].preview_progress]
                           /\ ~apply_enabled'
                           /\ remaining_label' = 0
                 /\ (hist'.last = "edit")
                        => /\ Len(categories') = Len(categories)
                           /\ WishCount(categories') = WishCount(categories) - 1
                           /\ \A c \in 1..Len(categories) :
                                  \A i \in 1..Len(categories'[c].wishes) :
                                      \E j \in 1..Len(categories[c].wishes) :
                                          categories'[c].wishes[i] = categories[c].wishes[j]
         ]_vars

\* the program started on a file it could not load, distributed 5000 and
\* applied it while the disk was full: the file is cut off, the laptop of the
\* test data has the 2000 of its category on top of its 3000, and the apply
\* button is disabled
C23_Witness ==
    /\ hist.last = "apply" /\ hist.follows
    /\ disk = "full"
    /\ data_file = TruncatedFile
    /\ ~apply_enabled
    /\ Len(categories) = 2
    /\ Len(categories[1].wishes) = 2
    /\ categories[1].wishes[1].cost = 15000
    /\ categories[1].wishes[1].progress = 5000

====
